---- MODULE Spec2Model ----
(***************************************************************************)
(* nova/virt/firewall.py: IptablesFirewallDriver.                          *)
(*                                                                         *)
(* Strings are modelled as sequences of atoms (words, separators and       *)
(* formatted values), so that '%' formatting and ' '.join are computed     *)
(* rather than assumed.  An iptables table maps each existing chain name   *)
(* to the ordered list of rules (strings) it holds.                        *)
(***************************************************************************)
EXTENDS Integers, Sequences, FiniteSets, TLC

\* ------------------------------------------------------------------ bounds

\* Number of operations the host starts in one behaviour of Spec.
MaxOps == 3
\* Number of policy-store changes in one behaviour of Spec.
MaxChanges == 1

Threads == {1, 2}
\* The instances the host hands to the driver.
InstanceIds == {1, 2}
\* The instances the database knows: instance 3 runs on another host.
DbInstances == {1, 2, 3}
Groups == {"g1", "g2"}

\* ------------------------------------------------------------ string model

Digits == <<"0", "1", "2", "3", "4", "5", "6", "7", "8", "9">>

RECURSIVE NatStr(_)
NatStr(n) == IF n < 10 THEN <<Digits[n + 1]>>
             ELSE NatStr(n \div 10) \o <<Digits[(n % 10) + 1]>>

\* '%s' % n for an integer n
IntStr(n) == IF n < 0 THEN <<"-">> \o NatStr(0 - n) ELSE NatStr(n)

\* ' '.join(args): args is a list of strings
RECURSIVE Join(_)
Join(args) == IF Len(args) = 0 THEN <<>>
              ELSE IF Len(args) = 1 THEN args[1]
              ELSE args[1] \o <<" ">> \o Join(Tail(args))

\* s contains sub as a contiguous substring (Python's `sub in s`)
Contains(s, sub) ==
    \E k \in 0..(Len(s) - Len(sub)) :
        \A j \in 1..Len(sub) : s[k + j] = sub[j]

RECURSIVE Flatten(_)
Flatten(ss) == IF Len(ss) = 0 THEN <<>> ELSE Head(ss) \o Flatten(Tail(ss))

RECURSIVE SetToSeq(_)
SetToSeq(S) == IF S = {} THEN <<>>
               ELSE LET x == CHOOSE y \in S : \A z \in S : y <= z
                    IN  <<x>> \o SetToSeq(S \ {x})

\* ----------------------------------------------------- inputs: topology

\* The instance record handed to the driver by the compute manager.
Instance(i) == [id |-> i]

\* Legacy network_info of an instance: a list of (network, mapping) pairs.
NetworkInfo(i) ==
    IF i = 1
    THEN << <<[cidr |-> "10.0.0.0/24", cidr_v6 |-> "fd00:a::/64"],
              [ips |-> <<[ip |-> "10.0.0.1"]>>,
               ip6s |-> <<[ip |-> "fd00:a::1"]>>,
               dhcp_server |-> "10.0.0.254",
               gateway_v6 |-> "fd00:a::fe"]>> >>
    ELSE IF i = 2
    THEN << <<[cidr |-> "10.0.1.0/24", cidr_v6 |-> "fd00:b::/64"],
              [ips |-> <<[ip |-> "10.0.1.2"]>>,
               ip6s |-> <<[ip |-> "fd00:b::2"]>>,
               dhcp_server |-> "",
               gateway_v6 |-> "fd00:b::fe"]>> >>
    ELSE << <<[cidr |-> "10.0.1.0/24", cidr_v6 |-> "fd00:b::/64"],
              [ips |-> <<[ip |-> "10.0.1.3"]>>,
               ip6s |-> <<[ip |-> "fd00:b::3"]>>,
               dhcp_server |-> "",
               gateway_v6 |-> "fd00:b::fe"]>>,
            <<[cidr |-> "10.0.0.0/24", cidr_v6 |-> "fd00:a::/64"],
              [ips |-> <<[ip |-> "10.0.0.3"]>>,
               ip6s |-> <<[ip |-> "fd00:a::3"]>>,
               dhcp_server |-> "10.0.0.254",
               gateway_v6 |-> "fd00:a::fe"]>> >>

\* nw_api.get_instance_nw_info(ctxt, instance, capi).fixed_ips()
FixedIps(i) ==
    IF i = 1
    THEN << [address |-> "10.0.0.1", version |-> 4],
            [address |-> "fd00:a::1", version |-> 6] >>
    ELSE IF i = 2
    THEN << [address |-> "10.0.1.2", version |-> 4],
            [address |-> "fd00:b::2", version |-> 6] >>
    ELSE << [address |-> "10.0.1.3", version |-> 4],
            [address |-> "fd00:b::3", version |-> 6],
            [address |-> "10.0.0.3", version |-> 4],
            [address |-> "fd00:a::3", version |-> 6] >>

\* ------------------------------------------------- inputs: policy store

\* security_group_get_by_instance: the groups an instance is a member of.
security_group_get_by_instance(i) ==
    IF i = 1 THEN <<"g1">> ELSE IF i = 2 THEN <<"g2">> ELSE <<"g2", "g1">>

\* rule['grantee_group']['instances']: the members of a grantee group.
GranteeInstances(g) ==
    SetToSeq({i \in DbInstances :
                \E k \in 1..Len(security_group_get_by_instance(i)) :
                    security_group_get_by_instance(i)[k] = g})

\* Security group rules the store may hold.
RuleTcp80 == [protocol |-> "tcp", from_port |-> 80, to_port |-> 80,
              cidr |-> "0.0.0.0/0", grantee_group |-> ""]
RuleIcmpFromG2 == [protocol |-> "ICMP", from_port |-> 8, to_port |-> -1,
                   cidr |-> "", grantee_group |-> "g2"]
RuleUdpV6 == [protocol |-> "udp", from_port |-> 53, to_port |-> 54,
              cidr |-> "fd00:c::/64", grantee_group |-> ""]

\* The rule lists a security group may hold in the store.
RuleLists == { <<RuleTcp80>>, <<RuleIcmpFromG2, RuleUdpV6>> }

\* Further security group rules, for the calls of the rule compiler.
RuleTcpRange == [protocol |-> "TCP", from_port |-> 20, to_port |-> 21,
                 cidr |-> "10.1.0.0/16", grantee_group |-> ""]
RuleUdpV6One == [protocol |-> "udp", from_port |-> 53, to_port |-> 53,
                 cidr |-> "fd00:c::/64", grantee_group |-> ""]
RuleIcmpAny == [protocol |-> "icmp", from_port |-> -1, to_port |-> -1,
                cidr |-> "0.0.0.0/0", grantee_group |-> ""]
RuleIcmpType == [protocol |-> "icmp", from_port |-> 8, to_port |-> -1,
                 cidr |-> "0.0.0.0/0", grantee_group |-> ""]
RuleIcmpTypeCode == [protocol |-> "icmp", from_port |-> 0, to_port |-> 0,
                     cidr |-> "0.0.0.0/0", grantee_group |-> ""]
RuleIcmp6Any == [protocol |-> "icmp", from_port |-> -1, to_port |-> -1,
                 cidr |-> "fd00:c::/64", grantee_group |-> ""]
RuleIcmp6Type == [protocol |-> "icmp", from_port |-> 128, to_port |-> -1,
                  cidr |-> "fd00:c::/64", grantee_group |-> ""]
RuleIcmp6TypeCode == [protocol |-> "icmp", from_port |-> 1, to_port |-> 4,
                      cidr |-> "fd00:c::/64", grantee_group |-> ""]
RuleTcpFromG1 == [protocol |-> "tcp", from_port |-> 22, to_port |-> 22,
                  cidr |-> "", grantee_group |-> "g1"]
RuleAllFromCidr == [protocol |-> "", from_port |-> -1, to_port |-> -1,
                    cidr |-> "192.0.2.0/24", grantee_group |-> ""]
RuleEmpty == [protocol |-> "", from_port |-> -1, to_port |-> -1,
              cidr |-> "", grantee_group |-> ""]
RuleTcpBackwards == [protocol |-> "tcp", from_port |-> 80, to_port |-> 22,
                     cidr |-> "0.0.0.0/0", grantee_group |-> ""]

\* The rule lists a security group holds in the calls of the rule compiler.
CompilerRuleLists ==
    { <<>>, <<RuleTcp80>>, <<RuleTcpRange>>, <<RuleUdpV6>>, <<RuleUdpV6One>>,
      <<RuleIcmpAny>>, <<RuleIcmpType>>, <<RuleIcmpTypeCode>>,
      <<RuleIcmp6Any>>, <<RuleIcmp6Type>>, <<RuleIcmp6TypeCode>>,
      <<RuleIcmpFromG2>>, <<RuleTcpFromG1>>, <<RuleAllFromCidr>>,
      <<RuleEmpty>>, <<RuleTcpBackwards>>,
      <<RuleTcp80, RuleTcp80>>, <<RuleUdpV6, RuleTcp80, RuleIcmpFromG2>> }

\* The provider rule lists of the calls of the rule compiler.
CompilerProviderRuleLists ==
    { <<>>,
      <<[protocol |-> "tcp", from_port |-> 22, to_port |-> 22,
         cidr |-> "192.0.2.0/24"]>>,
      <<[protocol |-> "udp", from_port |-> 53, to_port |-> 54,
         cidr |-> "fd00:c::/64"]>>,
      <<[protocol |-> "icmp", from_port |-> -1, to_port |-> -1,
         cidr |-> "192.0.2.0/24"]>>,
      <<[protocol |-> "icmp", from_port |-> 8, to_port |-> -1,
         cidr |-> "192.0.2.0/24"]>>,
      <<[protocol |-> "icmp", from_port |-> 3, to_port |-> 0,
         cidr |-> "192.0.2.0/24"]>>,
      <<[protocol |-> "icmp", from_port |-> 128, to_port |-> -1,
         cidr |-> "fd00:c::/64"]>>,
      <<[protocol |-> "icmp", from_port |-> 1, to_port |-> 4,
         cidr |-> "fd00:c::/64"]>>,
      <<[protocol |-> "tcp", from_port |-> 22, to_port |-> 22,
         cidr |-> "192.0.2.0/24"],
        [protocol |-> "udp", from_port |-> 53, to_port |-> 53,
         cidr |-> "198.51.100.0/24"]>> }

\* The provider rule lists of the store of a host that changes them between
\* refreshes.
HostProviderRuleLists ==
    { <<>>,
      <<[protocol |-> "tcp", from_port |-> 22, to_port |-> 22,
         cidr |-> "192.0.2.0/24"]>>,
      <<[protocol |-> "udp", from_port |-> 53, to_port |-> 54,
         cidr |-> "198.51.100.0/24"],
        [protocol |-> "icmp", from_port |-> 8, to_port |-> -1,
         cidr |-> "fd00:c::/64"],
        [protocol |-> "tcp", from_port |-> 22, to_port |-> 22,
         cidr |-> "192.0.2.0/24"]>> }

\* Provider firewall rules the store may hold.
ProviderRuleLists ==
    { <<>>,
      <<[protocol |-> "tcp", from_port |-> 22, to_port |-> 22,
         cidr |-> "192.0.2.0/24"]>> }

\* netutils.get_ip_version(cidr)
get_ip_version(cidr) ==
    IF cidr \in {"fd00:a::/64", "fd00:b::/64", "fd00:c::/64"} THEN 6 ELSE 4

\* str.lower() on the protocol names the store holds
lower(p) == CASE p = "TCP" -> "tcp"
              [] p = "UDP" -> "udp"
              [] p = "ICMP" -> "icmp"
              [] OTHER -> p

\* A string literal made of the words ws separated by single spaces.
Lit(ws) == Join([k \in 1..Len(ws) |-> <<ws[k]>>])

\* ---------------------------------------------------------- rule compiler

\* (the variant that names every instance's chain alike)
_instance_chain_name_shared(instance) == <<"inst-">>
\* _instance_chain_name: 'inst-%s' % (instance['id'],)
_instance_chain_name(instance) == <<"inst-">> \o IntStr(instance.id)

\* _create_filter: ['-d %s -j $%s' % (ip, chain_name) for ip in ips]
_create_filter(ips, chain_name) ==
    [k \in 1..Len(ips) |-> <<"-d", " ", ips[k], " ", "-j", " ", "$">> \o chain_name]

\* _filters_for_instance: one jump per address of the instance
_filters_for_instance(chain_name, network_info, use_ipv6) ==
    LET ips_v4 == Flatten([k \in 1..Len(network_info) |->
                     [j \in 1..Len(network_info[k][2].ips) |->
                         network_info[k][2].ips[j].ip]])
        ips_v6 == Flatten([k \in 1..Len(network_info) |->
                     [j \in 1..Len(network_info[k][2].ip6s) |->
                         network_info[k][2].ip6s[j].ip]])
    IN  << _create_filter(ips_v4, chain_name),
           IF use_ipv6 THEN _create_filter(ips_v6, chain_name) ELSE <<>> >>

\* (the variant with the jump to the provider chain first)
_do_basic_rules_provider_first ==
    << <<"-j", " ", "$", "provider">>,
       Lit(<<"-m", "state", "--state", "INVALID", "-j", "DROP">>),
       Lit(<<"-m", "state", "--state", "ESTABLISHED,RELATED", "-j", "ACCEPT">>) >>
\* _do_basic_rules: the rules appended to both lists
_do_basic_rules ==
    << Lit(<<"-m", "state", "--state", "INVALID", "-j", "DROP">>),
       Lit(<<"-m", "state", "--state", "ESTABLISHED,RELATED", "-j", "ACCEPT">>),
       <<"-j", " ", "$", "provider">> >>

\* _do_dhcp_rules: the rules appended to ipv4_rules
_do_dhcp_rules(network_info) ==
    Flatten([k \in 1..Len(network_info) |->
        IF network_info[k][2].dhcp_server # ""
        THEN << <<"-s", " ", network_info[k][2].dhcp_server, " ">> \o
                Lit(<<"-p", "udp", "--sport", "67", "--dport", "68",
                      "-j", "ACCEPT">>) >>
        ELSE <<>>])

\* (the variant that appends the IPv6 rules whatever use_ipv6 is)
_do_project_network_rules_both(network_info, use_ipv6) ==
    << [k \in 1..Len(network_info) |->
           <<"-s", " ", network_info[k][1].cidr, " ", "-j", " ", "ACCEPT">>],
       [k \in 1..Len(network_info) |->
           <<"-s", " ", network_info[k][1].cidr_v6, " ", "-j", " ", "ACCEPT">>] >>
\* _do_project_network_rules: the rules appended to <<ipv4_rules, ipv6_rules>>
_do_project_network_rules(network_info, use_ipv6) ==
    << [k \in 1..Len(network_info) |->
           <<"-s", " ", network_info[k][1].cidr, " ", "-j", " ", "ACCEPT">>],
       IF use_ipv6
       THEN [k \in 1..Len(network_info) |->
               <<"-s", " ", network_info[k][1].cidr_v6, " ", "-j", " ", "ACCEPT">>]
       ELSE <<>> >>

\* _do_ra_rules: the rules appended to ipv6_rules
_do_ra_rules(network_info) ==
    [k \in 1..Len(network_info) |->
        <<"-s", " ", network_info[k][2].gateway_v6, "/128", " ">> \o
        Lit(<<"-p", "icmpv6", "-j", "ACCEPT">>)]

\* _build_icmp_rule: the arguments matching the ICMP type and code
_build_icmp_rule(rule, version) ==
    LET icmp_type == rule.from_port
        icmp_code == rule.to_port
        icmp_type_arg ==
            IF icmp_type = -1 THEN <<>>
            ELSE IF icmp_code # -1
                 THEN IntStr(icmp_type) \o <<"/">> \o IntStr(icmp_code)
                 ELSE IntStr(icmp_type)
    IN  IF icmp_type_arg # <<>>
        THEN IF version = 4
             THEN << <<"-m">>, <<"icmp">>, <<"--icmp-type">>, icmp_type_arg >>
             ELSE IF version = 6
             THEN << <<"-m">>, <<"icmp6">>, <<"--icmpv6-type">>, icmp_type_arg >>
             ELSE <<>>
        ELSE <<>>

\* (the variant that always matches a range)
_build_tcp_udp_rule_range(rule, version) ==
    << <<"-m">>, <<"multiport">>, <<"--dports">>,
       IntStr(rule.from_port) \o <<":">> \o IntStr(rule.to_port) >>
\* _build_tcp_udp_rule: the arguments matching the destination port(s)
_build_tcp_udp_rule(rule, version) ==
    IF rule.from_port = rule.to_port
    THEN << <<"--dport">>, IntStr(rule.from_port) >>
    ELSE << <<"-m">>, <<"multiport">>, <<"--dports">>,
            IntStr(rule.from_port) \o <<":">> \o IntStr(rule.to_port) >>

\* The body of instance_rules' loop over the rules of a group: the fragments
\* one rule adds, and the IP version of the list they are added to.
RuleFragments(rule) ==
    LET version == IF rule.cidr = "" THEN 4 ELSE get_ip_version(rule.cidr)
        protocol0 == IF rule.protocol # "" THEN lower(rule.protocol)
                     ELSE rule.protocol
        protocol == IF version = 6 /\ protocol0 = "icmp" THEN "icmpv6"
                    ELSE protocol0
        args0 == << <<"-j", " ", "ACCEPT">> >>
        args1 == IF protocol # "" THEN args0 \o << <<"-p">>, <<protocol>> >>
                 ELSE args0
        args == IF protocol \in {"udp", "tcp"}
                THEN args1 \o _build_tcp_udp_rule(rule, version)
                ELSE IF protocol = "icmp"
                THEN args1 \o _build_icmp_rule(rule, version)
                ELSE args1
        members == IF rule.grantee_group # ""
                   THEN GranteeInstances(rule.grantee_group) ELSE <<>>
        ipsOf(i) == SelectSeq(FixedIps(i), LAMBDA ip : ip.version = version)
        subrules(i) == [k \in 1..Len(ipsOf(i)) |->
                          Join(args \o << <<"-s", " ", ipsOf(i)[k].address>> >>)]
    IN  [version |-> version,
         frags |-> IF rule.cidr # ""
                   THEN << Join(args \o << <<"-s">>, <<rule.cidr>> >>) >>
                   ELSE Flatten([k \in 1..Len(members) |-> subrules(members[k])])]

\* The rules a list of security group rules adds to <<ipv4_rules, ipv6_rules>>.
RECURSIVE RulesLoop(_, _)
RulesLoop(rules, acc) ==
    IF Len(rules) = 0 THEN acc
    ELSE LET f == RuleFragments(Head(rules))
         IN  RulesLoop(Tail(rules),
                       IF f.version = 4
                       THEN <<acc[1] \o f.frags, acc[2]>>
                       ELSE <<acc[1], acc[2] \o f.frags>>)

\* The loop of instance_rules over the security groups of the instance;
\* sg_rules is security_group_rule_get_by_security_group.
RECURSIVE GroupsLoop(_, _, _)
GroupsLoop(groups, sg_rules, acc) ==
    IF Len(groups) = 0 THEN acc
    ELSE GroupsLoop(Tail(groups), sg_rules,
                    RulesLoop(sg_rules[Head(groups)], acc))

\* instance_rules: <<ipv4_rules, ipv6_rules>> of an instance
instance_rules(instance, network_info, conf, sg_rules) ==
    LET basic == <<_do_basic_rules, _do_basic_rules>>
        dhcp == <<basic[1] \o _do_dhcp_rules(network_info), basic[2]>>
        net == IF conf.allow_same_net_traffic
               THEN LET p == _do_project_network_rules(network_info, conf.use_ipv6)
                    IN  <<dhcp[1] \o p[1], dhcp[2] \o p[2]>>
               ELSE dhcp
        ra == IF conf.use_ipv6
              THEN <<net[1], net[2] \o _do_ra_rules(network_info)>>
              ELSE net
        sg == GroupsLoop(security_group_get_by_instance(instance.id), sg_rules, ra)
    IN  << sg[1] \o << <<"-j", " ", "$", "sg-fallback">> >>,
           sg[2] \o << <<"-j", " ", "$", "sg-fallback">> >> >>

\* instance_rules expands a grantee group through the network API
\* (nw_api.get_instance_nw_info) for this instance and this store state.
NeedsMemberLookup(instance, sg_rules) ==
    LET groups == security_group_get_by_instance(instance.id)
    IN  \E g \in 1..Len(groups) :
          \E k \in 1..Len(sg_rules[groups[g]]) :
              /\ sg_rules[groups[g]][k].cidr = ""
              /\ sg_rules[groups[g]][k].grantee_group # ""
              /\ Len(GranteeInstances(sg_rules[groups[g]][k].grantee_group)) > 0

\* _provider_rules: <<ipv4_rules, ipv6_rules>> of the provider chain
RECURSIVE ProviderLoop(_, _)
ProviderLoop(rules, acc) ==
    IF Len(rules) = 0 THEN acc
    ELSE LET rule == Head(rules)
             version == get_ip_version(rule.cidr)
             protocol == IF version = 6 /\ rule.protocol = "icmp" THEN "icmpv6"
                         ELSE rule.protocol
             args0 == << <<"-p">>, <<protocol>>, <<"-s">>, <<rule.cidr>> >>
             icmp_type_arg ==
                 IF rule.from_port = -1 THEN <<>>
                 ELSE IF rule.to_port # -1
                      THEN IntStr(rule.from_port) \o <<"/">> \o IntStr(rule.to_port)
                      ELSE IntStr(rule.from_port)
             args1 ==
                 IF protocol \in {"udp", "tcp"}
                 THEN IF rule.from_port = rule.to_port
                      THEN args0 \o << <<"--dport">>, IntStr(rule.from_port) >>
                      ELSE args0 \o << <<"-m">>, <<"multiport">>, <<"--dports">>,
                                       IntStr(rule.from_port) \o <<":">> \o
                                       IntStr(rule.to_port) >>
                 ELSE IF protocol = "icmp" /\ icmp_type_arg # <<>>
                 THEN IF version = 4
                      THEN args0 \o << <<"-m">>, <<"icmp">>, <<"--icmp-type">>,
                                       icmp_type_arg >>
                      ELSE IF version = 6
                      THEN args0 \o << <<"-m">>, <<"icmp6">>, <<"--icmpv6-type">>,
                                       icmp_type_arg >>
                      ELSE args0
                 ELSE args0
             frag == Join(args1 \o << <<"-j", " ", "DROP">> >>)
         IN  ProviderLoop(Tail(rules),
                          IF version = 4 THEN <<acc[1] \o <<frag>>, acc[2]>>
                          ELSE <<acc[1], acc[2] \o <<frag>>>>)

_provider_rules(provider_fw_rule_get_all) ==
    ProviderLoop(provider_fw_rule_get_all, << <<>>, <<>> >>)

\* ------------------------------------------- the filter sink (iptables table)

\* A rule that jumps to the chain `name`.
JumpsTo(rule, name) == Contains(rule, <<"-j", " ", "$">> \o name)

\* IptablesTable.add_chain: a set-like add of an empty chain
add_chain(tbl, name) ==
    IF name \in DOMAIN tbl THEN tbl
    ELSE [c \in DOMAIN tbl \cup {name} |-> IF c = name THEN <<>> ELSE tbl[c]]

\* IptablesTable.remove_chain: removes the chain, its rules and every rule
\* of another chain that jumps to it; an unknown chain is ignored
remove_chain(tbl, name) ==
    IF name \notin DOMAIN tbl THEN tbl
    ELSE [c \in DOMAIN tbl \ {name} |->
             SelectSeq(tbl[c], LAMBDA r : ~JumpsTo(r, name))]

\* IptablesTable.empty_chain: removes every rule of the chain
empty_chain(tbl, name) ==
    IF name \notin DOMAIN tbl THEN tbl
    ELSE [tbl EXCEPT ![name] = <<>>]

\* IptablesTable.add_rule, once per rule of the list; the chain must exist
add_rules(tbl, name, rules) == [tbl EXCEPT ![name] = @ \o rules]

\* --------------------------------------------------------------- the state

VARIABLES
    CONF,                \* [use_ipv6, allow_same_net_traffic]
    instances,           \* self.instances: id -> instance
    network_infos,       \* self.network_infos: id -> network_info
    iptables,            \* self.iptables: [4 |-> ipv4['filter'], 6 |-> ipv6['filter']]
    committed,           \* what the last commit (apply) wrote to the packet filter
    deferred,            \* self.iptables.iptables_apply_deferred
    ipv6_calls,          \* an operation has called self.iptables.ipv6['filter']
                         \* since the driver was constructed
    lock,                \* holder of the lock 'iptables' (0: free)
    sg_rules,            \* policy store: group -> its rules
    provider_fw_rules,   \* policy store: the provider rules
    pending,             \* groups changed in the store whose refresh has not
                         \* started (followed in SpecTriggered)
    pc,                  \* per thread: where it is in its operation
    cur,                 \* per thread: the operation's arguments and locals
    nops,                \* operations started so far (counted in Spec)
    changes              \* policy changes so far (counted in Spec, SpecTriggered)

vars == <<CONF, instances, network_infos, iptables, committed, deferred,
          ipv6_calls, lock,
          sg_rules, provider_fw_rules, pending, pc, cur, nops, changes>>

NoRules == << <<>>, <<>> >>

\* Locals of a thread that runs no operation.  In a group refresh, todo is
\* what is left of the loop's list and replaced records the instances whose
\* chain the refresh has removed and recreated so far.
\* After a call that returns a value, ret is the value.
NoOp == [op |-> "none", inst |-> 0, group |-> "", rules |-> NoRules,
         todo |-> {}, replaced |-> {}, err |-> "", ret |-> ""]

\* A thread rests before its first operation, after an operation returned
\* ("idle"; "returned" when cur keeps what it returned) and after an
\* operation raised ("raised"; cur keeps the error).
Resting == {"idle", "raised", "returned"}
InFlight(t) == pc[t] \notin Resting
Quiescent == \A t \in Threads : ~InFlight(t)

\* __init__: the tables the driver is constructed on.  linux_net's manager
\* provides the wrapped built-in chain 'local'; the driver adds 'sg-fallback'.
InitTable ==
    add_rules(add_chain([c \in {<<"local">>} |-> <<>>], <<"sg-fallback">>),
              <<"sg-fallback">>, << <<"-j", " ", "DROP">> >>)

Init ==
    /\ CONF \in [use_ipv6 : BOOLEAN, allow_same_net_traffic : {TRUE}]
    /\ instances = <<>>
    /\ network_infos = <<>>
    /\ iptables = [v \in {4, 6} |-> InitTable]
    /\ committed = [v \in {4, 6} |-> InitTable]
    /\ deferred = FALSE
    /\ ipv6_calls = FALSE
    /\ lock = 0
    /\ sg_rules = [g \in Groups |-> IF g = "g1" THEN <<RuleIcmpFromG2, RuleUdpV6>>
                                  ELSE <<RuleTcp80>>]
    /\ provider_fw_rules = <<>>
    /\ pending = {}
    /\ pc = [t \in Threads |-> "idle"]
    /\ cur = [t \in Threads |-> NoOp]
    /\ nops = 0
    /\ changes = 0

\* ----------------------------------------------------------------- helpers

Put(f, k, v) == [x \in DOMAIN f \cup {k} |-> IF x = k THEN v ELSE f[x]]
Pop(f, k) == [x \in DOMAIN f \ {k} |-> f[x]]

Goto(t, p, c) ==
    /\ pc' = [pc EXCEPT ![t] = p]
    /\ cur' = [cur EXCEPT ![t] = c]

\* The operation of thread t ends by raising err: its locals are dropped.
Raised(t, err) == [NoOp EXCEPT !.err = err]

LifecycleOps == {"prepare_instance_filter", "unfilter_instance"}

\* The caller serializes the lifecycle (prepare, unfilter) of one entity.
NoLifecycleOn(i) ==
    \A u \in Threads :
        InFlight(u) => ~(cur[u].op \in LifecycleOps /\ cur[u].inst = i)

\* A thread may start an operation; the host hands an operation to its
\* lowest-numbered free thread.  The mode is how the host calls the driver:
\*   "free":       any operations concurrently, MaxOps of them;
\*   "refresh":    a prepare or unfilter runs only while no other operation
\*                 is in flight, the refreshes run concurrently;
\*   "triggered":  as "refresh", with at most MaxChanges changes of the
\*                 policy store, each followed until its refresh has started;
\*   "concurrent": any operations concurrently, any number of them;
\*   "sequential": one operation at a time;
\*   "host":       one operation at a time, the policy store changing
\*                 between operations only.
CanStart(t, mode, lifecycle) ==
    /\ ~InFlight(t)
    /\ \A u \in Threads : u < t => InFlight(u)
    /\ mode = "free" => nops < MaxOps
    /\ nops' = IF mode = "free" THEN nops + 1 ELSE nops
    /\ mode \in {"refresh", "triggered"} =>
         \A u \in Threads \ {t} :
             InFlight(u) => (~lifecycle /\ cur[u].op \notin LifecycleOps)
    /\ mode \in {"sequential", "host"} => Quiescent

\* How a call of instance_rules may end: with the rule lists, or, when
\* it expands a grantee group, with the network API's lookup failing.
CompileOutcomes(instance, faults) ==
    IF faults /\ NeedsMemberLookup(instance, sg_rules)
    THEN {"ok", "member_lookup"} ELSE {"ok"}

\* lockutils.synchronized('iptables', 'nova-', external=True): the decorated
\* method is entered only while no other thread holds the lock.
\* (the variant without the decorator: entered at once)
synchronized_unlocked(t) == TRUE
synchronized(t) == lock = 0

\* --------------------------------------------------------------- operations

\* prepare_instance_filter, up to the call of add_filters_for_instance
prepare_instance_filter(t, i, mode, faults) ==
    /\ CanStart(t, mode, TRUE)
    /\ i \notin DOMAIN instances
    /\ NoLifecycleOn(i)
    /\ instances' = Put(instances, i, Instance(i))
    /\ network_infos' = Put(network_infos, i, NetworkInfo(i))
    /\ \E outcome \in CompileOutcomes(Instance(i), faults) :
         LET c == [NoOp EXCEPT !.op = "prepare_instance_filter", !.inst = i]
         IN  IF outcome = "ok"
             THEN Goto(t, "p_add",
                       [c EXCEPT !.rules = instance_rules(Instance(i),
                                     NetworkInfo(i), CONF, sg_rules)])
             ELSE Goto(t, "raised", Raised(t, outcome))
    /\ UNCHANGED <<CONF, deferred, ipv6_calls, iptables, committed, lock, sg_rules,
                   provider_fw_rules, pending, changes>>

\* add_filters_for_instance: the lookup of the network_info, the add_chain
\* calls, _add_filters('local', ...) with the jumps of _filters_for_instance
\* and _add_filters(chain_name, ...) with the instance's rules; in a refresh
\* this ends _inner_do_refresh_rules, which releases the lock
add_filters_for_instance(t) ==
    /\ pc[t] \in {"p_add", "r_add"}
    /\ LET chain_name == _instance_chain_name(Instance(cur[t].inst))
       IN  IF cur[t].inst \notin DOMAIN network_infos
           THEN /\ Goto(t, "raised", Raised(t, "KeyError"))
                /\ UNCHANGED <<iptables, ipv6_calls>>
           ELSE LET network_info == network_infos[cur[t].inst]
                    jumps == _filters_for_instance(chain_name, network_info,
                                                   CONF.use_ipv6)
                IN  /\ ipv6_calls' = (ipv6_calls \/ CONF.use_ipv6)
                    /\ iptables' =
                         [v \in {4, 6} |->
                            IF v = 4
                            THEN add_rules(
                                   add_rules(add_chain(iptables[4], chain_name),
                                             <<"local">>, jumps[1]),
                                   chain_name, cur[t].rules[1])
                            ELSE IF CONF.use_ipv6
                            THEN add_rules(
                                   add_rules(add_chain(iptables[6], chain_name),
                                             <<"local">>, jumps[2]),
                                   chain_name, cur[t].rules[2])
                            ELSE iptables[6]]
                    /\ IF pc[t] = "p_add"
                       THEN Goto(t, "p_provider", [cur[t] EXCEPT !.rules = NoRules])
                       ELSE IF cur[t].op = "refresh_security_group"
                       THEN Goto(t, "g_loop",
                                 [cur[t] EXCEPT !.rules = NoRules,
                                                !.replaced = @ \cup {cur[t].inst}])
                       ELSE Goto(t, "apply", [cur[t] EXCEPT !.rules = NoRules])
    /\ lock' = IF pc[t] = "r_add" THEN 0 ELSE lock
    /\ UNCHANGED <<CONF, deferred, instances, network_infos, committed, sg_rules,
                   provider_fw_rules, pending, nops, changes>>

\* remove_filters_for_instance
\* (the variant that leaves the chain and the jumps to it in place)
remove_filters_for_instance_kept(instance) == iptables
remove_filters_for_instance(instance) ==
    [v \in {4, 6} |->
        IF v = 4 \/ CONF.use_ipv6
        THEN remove_chain(iptables[v], _instance_chain_name(instance))
        ELSE iptables[v]]

\* _inner_do_refresh_rules: takes the lock and calls remove_filters_for_instance
InnerRefreshRemove(t) ==
    /\ pc[t] = "r_remove"
    /\ synchronized(t)
    /\ lock' = t
    /\ iptables' = remove_filters_for_instance(Instance(cur[t].inst))
    /\ ipv6_calls' = (ipv6_calls \/ CONF.use_ipv6)
    /\ Goto(t, "r_add", cur[t])
    /\ UNCHANGED <<CONF, deferred, instances, network_infos, committed, sg_rules,
                   provider_fw_rules, pending, nops, changes>>

\* _purge_provider_fw_rules: empties the provider chains
\* (the variant that leaves their rules in place)
_purge_provider_fw_rules_kept == iptables
_purge_provider_fw_rules ==
    [v \in {4, 6} |->
        IF v = 4 \/ CONF.use_ipv6
        THEN empty_chain(iptables[v], <<"provider">>)
        ELSE iptables[v]]

\* _do_refresh_provider_fw_rules: takes the lock; _purge_provider_fw_rules
ProviderPurge(t) ==
    /\ pc[t] \in {"p_provider", "v_purge"}
    /\ synchronized(t)
    /\ lock' = t
    /\ iptables' = _purge_provider_fw_rules
    /\ ipv6_calls' = (ipv6_calls \/ CONF.use_ipv6)
    /\ Goto(t, IF pc[t] = "p_provider" THEN "p_build" ELSE "v_build",
            cur[t])
    /\ UNCHANGED <<CONF, deferred, instances, network_infos, committed, sg_rules,
                   provider_fw_rules, pending, nops, changes>>

\* _build_provider_fw_rules; ends _do_refresh_provider_fw_rules
\* (the variant that writes the IPv6 table whatever use_ipv6 is)
ProviderBuild_unguarded(t) ==
    /\ pc[t] \in {"p_build", "v_build"}
    /\ LET rules == _provider_rules(provider_fw_rules)
       IN  iptables' =
             [v \in {4, 6} |->
                IF v = 4
                THEN add_rules(add_chain(iptables[4], <<"provider">>),
                               <<"provider">>, rules[1])
                ELSE add_rules(add_chain(iptables[6], <<"provider">>),
                               <<"provider">>, rules[2])]
    /\ ipv6_calls' = TRUE
    /\ lock' = 0
    /\ Goto(t, IF pc[t] = "p_build" THEN "p_apply" ELSE "apply",
            cur[t])
    /\ UNCHANGED <<CONF, deferred, instances, network_infos, committed, sg_rules,
                   provider_fw_rules, pending, nops, changes>>
ProviderBuild(t) ==
    /\ pc[t] \in {"p_build", "v_build"}
    /\ LET rules == _provider_rules(provider_fw_rules)
       IN  iptables' =
             [v \in {4, 6} |->
                IF v = 4
                THEN add_rules(add_chain(iptables[4], <<"provider">>),
                               <<"provider">>, rules[1])
                ELSE IF CONF.use_ipv6
                THEN add_rules(add_chain(iptables[6], <<"provider">>),
                               <<"provider">>, rules[2])
                ELSE iptables[6]]
    /\ ipv6_calls' = (ipv6_calls \/ CONF.use_ipv6)
    /\ lock' = 0
    /\ Goto(t, IF pc[t] = "p_build" THEN "p_apply" ELSE "apply",
            cur[t])
    /\ UNCHANGED <<CONF, deferred, instances, network_infos, committed, sg_rules,
                   provider_fw_rules, pending, nops, changes>>

\* IptablesManager.apply: commits the tables, unless the apply is deferred
apply == IF deferred THEN committed ELSE iptables

\* self.iptables.apply(): the commit, serialized by the lock 'iptables'.
\* prepare_instance_filter commits twice: in refresh_provider_fw_rules and
\* at its end.
\* (the variant that commits the tables itself, deferred or not)
Apply_undeferred(t) ==
    /\ pc[t] \in {"p_apply", "apply"}
    /\ lock = 0
    /\ committed' = iptables
    /\ IF pc[t] = "p_apply"
       THEN Goto(t, "apply", cur[t])
       ELSE Goto(t, "idle", NoOp)
    /\ UNCHANGED <<CONF, deferred, ipv6_calls, instances, network_infos, iptables, lock, sg_rules,
                   provider_fw_rules, pending, nops, changes>>
Apply(t) ==
    /\ pc[t] \in {"p_apply", "apply"}
    /\ lock = 0
    /\ committed' = apply
    /\ IF pc[t] = "p_apply"
       THEN Goto(t, "apply", cur[t])
       ELSE Goto(t, "idle", NoOp)
    /\ UNCHANGED <<CONF, deferred, ipv6_calls, instances, network_infos, iptables, lock, sg_rules,
                   provider_fw_rules, pending, nops, changes>>

\* self.instances.pop(instance['id'], None) is truthy
\* (the variant that takes the branch whatever pop returns)
unfilter_tracked_always(i) == TRUE
unfilter_tracked(i) == i \in DOMAIN instances

\* unfilter_instance, up to the call of remove_filters_for_instance
unfilter_instance(t, i, mode) ==
    /\ CanStart(t, mode, TRUE)
    /\ NoLifecycleOn(i)
    /\ LET c == [NoOp EXCEPT !.op = "unfilter_instance", !.inst = i]
       IN  IF unfilter_tracked(i)
           THEN /\ instances' = Pop(instances, i)
                /\ network_infos' = Pop(network_infos, i)
                /\ Goto(t, "u_remove", c)
           ELSE /\ Goto(t, "u_log", c)
                /\ UNCHANGED <<instances, network_infos>>
    /\ UNCHANGED <<CONF, deferred, ipv6_calls, iptables, committed, lock, sg_rules,
                   provider_fw_rules, pending, changes>>

\* unfilter_instance: the else branch logs and returns
UnfilterLog(t) ==
    /\ pc[t] = "u_log"
    /\ Goto(t, "idle", NoOp)
    /\ UNCHANGED <<CONF, deferred, ipv6_calls, instances, network_infos, iptables, committed, lock,
                   sg_rules, provider_fw_rules, pending, nops, changes>>

\* unfilter_instance: remove_filters_for_instance
UnfilterRemove(t) ==
    /\ pc[t] = "u_remove"
    /\ iptables' = remove_filters_for_instance(Instance(cur[t].inst))
    /\ ipv6_calls' = (ipv6_calls \/ CONF.use_ipv6)
    /\ Goto(t, "apply", cur[t])
    /\ UNCHANGED <<CONF, deferred, instances, network_infos, committed, lock, sg_rules,
                   provider_fw_rules, pending, nops, changes>>

\* do_refresh_instance_rules / do_refresh_security_group_rules call
\* instance_rules before _inner_do_refresh_rules: when instance_rules raises,
\* remove_filters_for_instance has not run and the tables are as they were.
\* (the variant that removes the chain before it compiles)
TablesWhenCompileRaises_removed(instance) == remove_filters_for_instance(instance)
TablesWhenCompileRaises(instance) == iptables

\* do_refresh_instance_rules / the body of do_refresh_security_group_rules'
\* loop, up to the call of _inner_do_refresh_rules: thread t with locals c
\* looks up the network_info of instance i and compiles its rules.
Compile(t, c, i, faults) ==
    IF i \notin DOMAIN network_infos
    THEN /\ Goto(t, "raised", Raised(t, "KeyError"))
         /\ UNCHANGED iptables
    ELSE \E outcome \in CompileOutcomes(Instance(i), faults) :
           IF outcome = "ok"
           THEN /\ Goto(t, "r_remove",
                        [c EXCEPT !.inst = i,
                                  !.rules = instance_rules(Instance(i),
                                                network_infos[i], CONF, sg_rules)])
                /\ UNCHANGED iptables
           ELSE /\ Goto(t, "raised", Raised(t, outcome))
                /\ iptables' = TablesWhenCompileRaises(Instance(i))

\* refresh_instance_security_rules, up to the call of _inner_do_refresh_rules
refresh_instance_security_rules(t, i, mode, faults) ==
    /\ CanStart(t, mode, FALSE)
    /\ Compile(t, [NoOp EXCEPT !.op = "refresh_instance_security_rules"],
               i, faults)
    /\ UNCHANGED <<CONF, deferred, ipv6_calls, instances, network_infos, committed, lock,
                   sg_rules, provider_fw_rules, pending, changes>>

\* The instances do_refresh_security_group_rules loops over.
\* (the variant that loops over the tracked members of the group)
refresh_targets_members(security_group) ==
    {i \in DOMAIN instances :
        \E k \in 1..Len(security_group_get_by_instance(i)) :
            security_group_get_by_instance(i)[k] = security_group}
refresh_targets(security_group) == DOMAIN instances

\* refresh_security_group_rules: do_refresh_security_group_rules evaluates
\* self.instances.values()
refresh_security_group_rules(t, g, mode) ==
    /\ CanStart(t, mode, FALSE)
    /\ Goto(t, "g_loop", [NoOp EXCEPT !.op = "refresh_security_group",
                                      !.group = g,
                                      !.todo = refresh_targets(g)])
    /\ pending' = pending \ {g}
    /\ UNCHANGED <<CONF, deferred, ipv6_calls, instances, network_infos, iptables, committed, lock,
                   sg_rules, provider_fw_rules, changes>>

\* refresh_security_group_members: the same body
refresh_security_group_members(t, g, mode) ==
    refresh_security_group_rules(t, g, mode)

\* do_refresh_security_group_rules: one iteration of the loop, up to the
\* call of _inner_do_refresh_rules, or the end of the loop
GroupLoop(t, faults) ==
    /\ pc[t] = "g_loop"
    /\ IF cur[t].todo = {}
       THEN /\ Goto(t, "apply", cur[t])
            /\ UNCHANGED iptables
       ELSE \E i \in cur[t].todo :
              Compile(t, [cur[t] EXCEPT !.todo = @ \ {i}], i, faults)
    /\ UNCHANGED <<CONF, deferred, ipv6_calls, instances, network_infos, committed, lock,
                   sg_rules, provider_fw_rules, pending, nops, changes>>

\* refresh_provider_fw_rules
refresh_provider_fw_rules(t, mode) ==
    /\ CanStart(t, mode, FALSE)
    /\ Goto(t, "v_purge", [NoOp EXCEPT !.op = "refresh_provider_fw_rules"])
    /\ UNCHANGED <<CONF, deferred, ipv6_calls, instances, network_infos, iptables, committed, lock,
                   sg_rules, provider_fw_rules, pending, changes>>

\* The policy store changes the rules of a group, which triggers a refresh
\* of the group.
PolicyChange(g, rl, mode) ==
    /\ mode \in {"free", "triggered"} => changes < MaxChanges
    /\ rl # sg_rules[g]
    /\ sg_rules' = [sg_rules EXCEPT ![g] = rl]
    /\ pending' = IF mode = "triggered" THEN pending \cup {g} ELSE pending
    /\ changes' = IF mode \in {"free", "triggered"} THEN changes + 1 ELSE changes
    /\ UNCHANGED <<CONF, deferred, ipv6_calls, instances, network_infos, iptables, committed, lock,
                   provider_fw_rules, pc, cur, nops>>

\* The policy store changes the provider rules.
ProviderPolicyChange(rl, mode) ==
    /\ mode = "free" => changes < MaxChanges
    /\ mode = "host" => Quiescent
    /\ rl # provider_fw_rules
    /\ provider_fw_rules' = rl
    /\ changes' = IF mode = "free" THEN changes + 1 ELSE changes
    /\ UNCHANGED <<CONF, deferred, ipv6_calls, instances, network_infos, iptables, committed, lock,
                   sg_rules, pending, pc, cur, nops>>

Step(t, faults) ==
    \/ add_filters_for_instance(t)
    \/ InnerRefreshRemove(t)
    \/ ProviderPurge(t)
    \/ ProviderBuild(t)
    \/ Apply(t)
    \/ UnfilterRemove(t)
    \/ UnfilterLog(t)
    \/ GroupLoop(t, faults)

Start(t, mode, faults) ==
    \/ \E i \in InstanceIds : prepare_instance_filter(t, i, mode, faults)
    \/ \E i \in InstanceIds : unfilter_instance(t, i, mode)
    \/ \E g \in Groups : refresh_security_group_rules(t, g, mode)
    \/ \E g \in Groups : refresh_security_group_members(t, g, mode)

\* Any operations on any threads, lookups may fail; at most MaxOps
\* operations and MaxChanges changes of the policy store.
Next ==
    \/ \E t \in Threads : Start(t, "free", TRUE)
    \/ \E t \in Threads, i \in InstanceIds :
          refresh_instance_security_rules(t, i, "free", TRUE)
    \/ \E t \in Threads : refresh_provider_fw_rules(t, "free")
    \/ \E t \in Threads : Step(t, TRUE)
    \/ \E g \in Groups, rl \in RuleLists : PolicyChange(g, rl, "free")
    \/ \E rl \in ProviderRuleLists : ProviderPolicyChange(rl, "free")

Spec == Init /\ [][Next]_vars

\* Prepare and unfilter run alone, the group refreshes run concurrently, no
\* lookup fails; any number of operations and of changes of the security
\* group rules.  IPv6 is in use, so that both tables are written.
InitRefresh == Init /\ CONF.use_ipv6

NextRefresh ==
    \/ \E t \in Threads : Start(t, "refresh", FALSE)
    \/ \E t \in Threads : Step(t, FALSE)
    \/ \E g \in Groups, rl \in RuleLists : PolicyChange(g, rl, "refresh")

SpecRefresh == InitRefresh /\ [][NextRefresh]_vars

\* As SpecRefresh, with at most MaxChanges changes of the security group
\* rules; a changed group is pending until a refresh of it has started.
NextTriggered ==
    \/ \E t \in Threads : Start(t, "triggered", FALSE)
    \/ \E t \in Threads : Step(t, FALSE)
    \/ \E g \in Groups, rl \in RuleLists : PolicyChange(g, rl, "triggered")

SpecTriggered == InitRefresh /\ [][NextTriggered]_vars

\* One operation at a time, lookups may fail; any number of operations and
\* of changes of the policy store.
NextSequential ==
    \/ \E t \in Threads : Start(t, "sequential", TRUE)
    \/ \E t \in Threads, i \in InstanceIds :
          refresh_instance_security_rules(t, i, "sequential", TRUE)
    \/ \E t \in Threads : refresh_provider_fw_rules(t, "sequential")
    \/ \E t \in Threads : Step(t, TRUE)
    \/ \E g \in Groups, rl \in RuleLists : PolicyChange(g, rl, "sequential")
    \/ \E rl \in ProviderRuleLists : ProviderPolicyChange(rl, "sequential")

SpecSequential == Init /\ [][NextSequential]_vars

\* Prepare, unfilter, the instance refresh and the group refreshes run
\* concurrently, any number of them, no lookup fails; the policy store does
\* not change.
NextConcurrent ==
    \/ \E t \in Threads : Start(t, "concurrent", FALSE)
    \/ \E t \in Threads, i \in InstanceIds :
          refresh_instance_security_rules(t, i, "concurrent", FALSE)
    \/ \E t \in Threads : Step(t, FALSE)

SpecConcurrent == Init /\ [][NextConcurrent]_vars

\* filter_defer_apply_on: self.iptables.defer_apply_on() defers the commits
filter_defer_apply_on ==
    /\ Quiescent
    /\ ~deferred
    /\ deferred' = TRUE
    /\ UNCHANGED <<CONF, ipv6_calls, instances, network_infos, iptables, committed, lock,
                   sg_rules, provider_fw_rules, pending, pc, cur, nops, changes>>

\* filter_defer_apply_off: self.iptables.defer_apply_off() ends the deferral
\* and commits the tables
filter_defer_apply_off ==
    /\ Quiescent
    /\ deferred
    /\ lock = 0
    /\ deferred' = FALSE
    /\ committed' = iptables
    /\ UNCHANGED <<CONF, ipv6_calls, instances, network_infos, iptables, lock,
                   sg_rules, provider_fw_rules, pending, pc, cur, nops, changes>>

\* IptablesFirewallDriver.instance_filter_exists: the body is `pass`, the
\* call returns None
instance_filter_exists(t, i) ==
    /\ CanStart(t, "host", FALSE)
    /\ Goto(t, "returned",
            [NoOp EXCEPT !.op = "instance_filter_exists", !.inst = i,
                         !.ret = "None"])
    /\ UNCHANGED <<CONF, deferred, ipv6_calls, instances, network_infos, iptables, committed,
                   lock, sg_rules, provider_fw_rules, pending, changes>>

\* NoopFirewallDriver.instance_filter_exists: return True
NoopFirewallDriver_instance_filter_exists(t, i) ==
    /\ CanStart(t, "host", FALSE)
    /\ Goto(t, "returned",
            [NoOp EXCEPT !.op = "NoopFirewallDriver.instance_filter_exists",
                         !.inst = i, !.ret = "True"])
    /\ UNCHANGED <<CONF, deferred, ipv6_calls, instances, network_infos, iptables, committed,
                   lock, sg_rules, provider_fw_rules, pending, changes>>

\* The host calls the driver one operation at a time, no lookup fails; it
\* changes the provider rules between operations, defers the commits and
\* ends the deferral, and asks whether an instance's filter exists.
NextHost ==
    \/ \E t \in Threads : Start(t, "host", FALSE)
    \/ \E t \in Threads, i \in InstanceIds :
          refresh_instance_security_rules(t, i, "host", FALSE)
    \/ \E t \in Threads : refresh_provider_fw_rules(t, "host")
    \/ \E t \in Threads : Step(t, FALSE)
    \/ \E rl \in HostProviderRuleLists : ProviderPolicyChange(rl, "host")
    \/ filter_defer_apply_on
    \/ filter_defer_apply_off
    \/ \E t \in Threads, i \in InstanceIds : instance_filter_exists(t, i)
    \/ \E t \in Threads, i \in InstanceIds :
          NoopFirewallDriver_instance_filter_exists(t, i)

SpecHost == Init /\ [][NextHost]_vars

\* A call of instance_rules for an instance of the database, with the
\* instance's topology, the configuration and the policy store as they are.
CallInstanceRules(t, i) ==
    /\ CanStart(t, "sequential", FALSE)
    /\ Goto(t, "returned",
            [NoOp EXCEPT !.op = "instance_rules", !.inst = i,
                         !.rules = instance_rules(Instance(i), NetworkInfo(i),
                                                  CONF, sg_rules)])
    /\ UNCHANGED <<CONF, deferred, ipv6_calls, instances, network_infos, iptables, committed,
                   lock, sg_rules, provider_fw_rules, pending, changes>>

\* A call of _provider_rules with the policy store as it is.
CallProviderRules(t) ==
    /\ CanStart(t, "sequential", FALSE)
    /\ Goto(t, "returned",
            [NoOp EXCEPT !.op = "_provider_rules",
                         !.rules = _provider_rules(provider_fw_rules)])
    /\ UNCHANGED <<CONF, deferred, ipv6_calls, instances, network_infos, iptables, committed,
                   lock, sg_rules, provider_fw_rules, pending, changes>>

\* The rule compiler alone: the configuration and the policy store are any
\* of the inputs above (the security group rules vary with no provider rule,
\* the provider rules with the initial security group rules).
InitCompiler ==
    /\ CONF \in [use_ipv6 : BOOLEAN, allow_same_net_traffic : BOOLEAN]
    /\ \/ /\ sg_rules \in [Groups -> CompilerRuleLists]
          /\ provider_fw_rules = <<>>
       \/ /\ sg_rules = [g \in Groups |-> IF g = "g1"
                                          THEN <<RuleIcmpFromG2, RuleUdpV6>>
                                          ELSE <<RuleTcp80>>]
          /\ provider_fw_rules \in CompilerProviderRuleLists
    /\ instances = <<>>
    /\ network_infos = <<>>
    /\ iptables = [v \in {4, 6} |-> InitTable]
    /\ committed = [v \in {4, 6} |-> InitTable]
    /\ deferred = FALSE
    /\ ipv6_calls = FALSE
    /\ lock = 0
    /\ pending = {}
    /\ pc = [t \in Threads |-> "idle"]
    /\ cur = [t \in Threads |-> NoOp]
    /\ nops = 0
    /\ changes = 0

NextCompiler ==
    \/ \E t \in Threads, i \in DbInstances : CallInstanceRules(t, i)
    \/ \E t \in Threads : CallProviderRules(t)

SpecCompiler == InitCompiler /\ [][NextCompiler]_vars

\* ------------------------------------------------------------- properties

\* Thread t takes the step: its position or its locals change.
Acts(t) == pc'[t] # pc[t] \/ cur'[t] # cur[t]

ChainOf(i) == _instance_chain_name(Instance(i))

\* C1: every step of a thread that changes the rule tables (the chain refresh,
\* the provider purge and rebuild, the add-chain sequence of prepare and the
\* remove-chain sequence of unfilter) is taken by the thread that holds the
\* lock 'iptables' before or after the step.
C1_MutationsHoldTheLock ==
    [][\A t \in Threads :
         (Acts(t) /\ iptables' # iptables) => (lock = t \/ lock' = t)]_vars

\* The committed chain of instance i is, in both tables, the rule list
\* instance_rules compiles from the state `policy` of the store: one compile
\* generation.
IsGeneration(i, policy) ==
    LET gen == instance_rules(Instance(i), network_infos[i], CONF, policy)
    IN  /\ committed[4][ChainOf(i)] = gen[1]
        /\ committed[6][ChainOf(i)] = gen[2]

\* C2: with group refreshes running concurrently, every committed state holds,
\* for every tracked instance that is not being prepared, a chain that is
\* present, not empty, and is in both tables the rule list of one compile
\* generation (of the store as it is now or as it was).
C2_CommittedChainsWhole ==
    \A i \in DOMAIN instances :
        NoLifecycleOn(i) =>
            /\ \A v \in {4, 6} : ChainOf(i) \in DOMAIN committed[v]
            /\ committed[4][ChainOf(i)] # <<>>
            /\ \/ IsGeneration(i, sg_rules)
               \/ \E policy \in [Groups -> RuleLists] : IsGeneration(i, policy)

\* Both instances are tracked, two threads run group refreshes of different
\* groups; one has removed a chain and not yet recreated it while the other
\* is about to commit.
C2_Witness ==
    /\ DOMAIN instances = InstanceIds
    /\ \E t \in Threads, u \in Threads :
          /\ cur[t].op = "refresh_security_group"
          /\ cur[u].op = "refresh_security_group"
          /\ cur[t].group # cur[u].group
          /\ pc[t] = "r_add"
          /\ pc[u] = "apply"
          /\ ChainOf(cur[t].inst) \notin DOMAIN iptables[4]
          /\ ChainOf(cur[t].inst) \in DOMAIN committed[4]

\* C3: when no operation is in flight and, after the last change of every
\* changed group, a refresh of the group has started and returned, the
\* committed chain of every tracked instance is what instance_rules compiles
\* from the policy store as it is now.
C3_ConsistentWhenRefreshed ==
    (Quiescent /\ pending = {}) =>
        \A i \in DOMAIN instances :
            /\ ChainOf(i) \in DOMAIN committed[4]
            /\ committed[4][ChainOf(i)] =
                  instance_rules(Instance(i), network_infos[i], CONF, sg_rules)[1]

\* C4: between operations, whether they returned or raised, the chain of an
\* instance exists in the table iff the instance is in self.instances.
C4_ChainIffTracked ==
    Quiescent =>
        \A i \in InstanceIds :
            ChainOf(i) \in DOMAIN iptables[4] <=> i \in DOMAIN instances

\* C5: every committed state that holds an instance chain with the jump to
\* the provider chain holds the provider chain.
C5_ProviderChainCommitted ==
    \A i \in InstanceIds :
        (/\ ChainOf(i) \in DOMAIN committed[4]
         /\ \E k \in 1..Len(committed[4][ChainOf(i)]) :
               JumpsTo(committed[4][ChainOf(i)][k], <<"provider">>))
        => <<"provider">> \in DOMAIN committed[4]

\* The instances that are members of a security group.
Members(security_group) ==
    {i \in InstanceIds :
        \E k \in 1..Len(security_group_get_by_instance(i)) :
            security_group_get_by_instance(i)[k] = security_group}

\* C6 as claimed: a refresh of group G removes and recreates the chains of
\* members of G only.
C6_OnlyMembersReplaced ==
    \A t \in Threads :
        cur[t].op = "refresh_security_group" =>
            cur[t].replaced \subseteq Members(cur[t].group)

\* C6: a group refresh whose loop ends has removed and recreated the chain
\* of every tracked instance, member of the group or not, and each chain it
\* recreates holds the rules the refresh has compiled for the instance.
C6_EveryTrackedReplaced ==
    [][\A t \in Threads :
         (Acts(t) /\ cur[t].op = "refresh_security_group") =>
            /\ (pc[t] = "g_loop" /\ pc'[t] = "apply") =>
                  DOMAIN instances \subseteq cur[t].replaced
            /\ (pc[t] = "r_add" /\ pc'[t] = "g_loop") =>
                  /\ cur'[t].replaced = cur[t].replaced \cup {cur[t].inst}
                  /\ iptables'[4][ChainOf(cur[t].inst)] = cur[t].rules[1]]_vars

\* A refresh of one group is about to commit after it has replaced the chain
\* of an instance that is not a member of the group.
C6_Witness ==
    \E t \in Threads :
        /\ cur[t].op = "refresh_security_group"
        /\ pc[t] = "apply"
        /\ DOMAIN instances = InstanceIds
        /\ cur[t].replaced = InstanceIds
        /\ Members(cur[t].group) # InstanceIds
        /\ \A i \in InstanceIds : ChainOf(i) \in DOMAIN committed[4]

\* C7: an operation never ends in its first step with a KeyError: the one
\* that could is refresh_instance_security_rules for an instance that is not
\* tracked, which is to return without an error.
C7_RefreshUntrackedReturns ==
    [][\A t \in Threads :
         (Acts(t) /\ ~InFlight(t)) =>
            ~(pc'[t] = "raised" /\ cur'[t].err = "KeyError")]_vars

\* C8: unfilter_instance for an instance that is not tracked goes to its
\* logging branch and returns from it; neither step changes self.instances,
\* self.network_infos, the tables (no remove_chain) or the committed state
\* (no apply).
C8_UnfilterUntrackedNoOp ==
    [][\A t \in Threads :
         /\ (/\ Acts(t) /\ ~InFlight(t)
             /\ cur'[t].op = "unfilter_instance"
             /\ cur'[t].inst \notin DOMAIN instances)
            => /\ pc'[t] = "u_log"
               /\ UNCHANGED <<instances, network_infos, iptables, committed>>
         /\ (Acts(t) /\ pc[t] = "u_log")
            => /\ pc'[t] = "idle"
               /\ UNCHANGED <<instances, network_infos, iptables, committed>>]_vars

\* An unfilter_instance of an instance that is not tracked is in its logging
\* branch, while the other instance is tracked and its chain committed.
C8_Witness ==
    \E t \in Threads :
        /\ pc[t] = "u_log"
        /\ cur[t].inst \notin DOMAIN instances
        /\ ChainOf(cur[t].inst) \notin DOMAIN committed[4]
        /\ \E i \in DOMAIN instances : ChainOf(i) \in DOMAIN committed[4]

\* C9: a step in which a refresh ends because instance_rules failed (the
\* member lookup; self.instances is unchanged, so it is not a prepare) leaves
\* the tables and the committed state as they were.
C9_CompileFailureKeepsChain ==
    [][\A t \in Threads :
         (/\ Acts(t)
          /\ pc'[t] = "raised" /\ cur'[t].err = "member_lookup"
          /\ instances' = instances)
         => UNCHANGED <<iptables, committed>>]_vars

\* A refresh of instance 1 has failed in instance_rules; sequentially, the
\* chain of the instance is still in the tables and committed, not empty.
C9_Witness ==
    /\ DOMAIN instances = {1}
    /\ \E t \in Threads : pc[t] = "raised" /\ cur[t].err = "member_lookup"
    /\ ChainOf(1) \in DOMAIN iptables[4]
    /\ iptables[4][ChainOf(1)] # <<>>
    /\ ChainOf(1) \in DOMAIN committed[4]

\* C10: a group refresh with several instances left to refresh is not
\* abandoned when the member lookup fails for one of them: it goes on to the
\* other instances and to the commit.
C10_LookupFailureNotFatal ==
    [][\A t \in Threads :
         (Acts(t) /\ pc[t] = "g_loop" /\ Cardinality(cur[t].todo) >= 2) =>
            ~(pc'[t] = "raised" /\ cur'[t].err = "member_lookup")]_vars

\* ------------------------------------------------- the rule compiler's output

\* The words of a string, split at its spaces.
RECURSIVE SplitAcc(_, _, _)
SplitAcc(s, word, acc) ==
    IF Len(s) = 0 THEN Append(acc, word)
    ELSE IF Head(s) = " " THEN SplitAcc(Tail(s), <<>>, Append(acc, word))
    ELSE SplitAcc(Tail(s), Append(word, Head(s)), acc)

Words(s) == SplitAcc(s, <<>>, <<>>)

\* The fragment has the word w.
HasWord(frag, w) == \E k \in 1..Len(Words(frag)) : Words(frag)[k] = w

\* The fragment has the option opt followed by the value val.
HasOption(frag, opt, val) ==
    \E k \in 1..(Len(Words(frag)) - 1) :
        Words(frag)[k] = <<opt>> /\ Words(frag)[k + 1] = val

\* Thread t has returned from a call of instance_rules.
ReturnedRules(t) == pc[t] = "returned" /\ cur[t].op = "instance_rules"

\* Thread t has returned from a call of _provider_rules.
ReturnedProviderRules(t) == pc[t] = "returned" /\ cur[t].op = "_provider_rules"

\* The security group rules instance_rules reads for instance i, in the order
\* it reads them.
RulesOf(i) ==
    Flatten([g \in 1..Len(security_group_get_by_instance(i)) |->
                sg_rules[security_group_get_by_instance(i)[g]]])

\* An invalid rule: no CIDR, no group reference and no protocol, or a tcp/udp
\* rule whose from_port is greater than its to_port.
InvalidRule(rule) ==
    \/ rule.cidr = "" /\ rule.grantee_group = "" /\ rule.protocol = ""
    \/ lower(rule.protocol) \in {"tcp", "udp"} /\ rule.from_port > rule.to_port

\* C11: compiling an instance whose groups hold an invalid rule ends in an
\* error, and instance_rules returns no rule lists for it.
C11_InvalidRuleIsAnError ==
    \A t \in Threads :
        (ReturnedRules(t) /\ \E k \in 1..Len(RulesOf(cur[t].inst)) :
                                 InvalidRule(RulesOf(cur[t].inst)[k]))
        => cur[t].err # "" /\ cur[t].rules = NoRules

\* The value that follows the first occurrence of the option in the fragment,
\* <<>> when the fragment has no such option.
OptionValue(frag, opt) ==
    LET w == Words(frag)
        ks == {k \in 1..(Len(w) - 1) : w[k] = <<opt>>}
    IN  IF ks = {} THEN <<>>
        ELSE w[(CHOOSE k \in ks : \A j \in ks : k <= j) + 1]

\* A fragment compiled from a security group rule: it starts with -j ACCEPT
\* (the DHCP, same-network and RA rules start with their source).
GroupDerived(frag) ==
    /\ Len(Words(frag)) >= 2
    /\ Words(frag)[1] = <<"-j">>
    /\ Words(frag)[2] = <<"ACCEPT">>

\* The protocol and the source of every group-derived fragment of a list.
KeysOf(list) ==
    LET g == SelectSeq(list, GroupDerived)
    IN  [k \in 1..Len(g) |-> <<OptionValue(g[k], "-p"), OptionValue(g[k], "-s")>>]

\* The addresses of IP version v of the members of a group, in member order.
MemberAddresses(group, v) ==
    Flatten([k \in 1..Len(GranteeInstances(group)) |->
        LET ips == SelectSeq(FixedIps(GranteeInstances(group)[k]),
                             LAMBDA ip : ip.version = v)
        IN  [j \in 1..Len(ips) |-> <<ips[j].address>>]])

\* The protocol and the source of the fragments the rules of instance i have
\* in the list of IP version v, in the order of the store.  A rule with a
\* CIDR is in the list of its CIDR's version; a rule with a grantee group
\* adds its fragments to the IPv4 list.
StoreKeys(i, v) ==
    Flatten([k \in 1..Len(RulesOf(i)) |->
        LET rule == RulesOf(i)[k]
            p == IF rule.protocol = "" THEN <<>>
                 ELSE IF v = 6 /\ lower(rule.protocol) = "icmp" THEN <<"icmpv6">>
                 ELSE <<lower(rule.protocol)>>
            srcs == IF rule.cidr # ""
                    THEN IF get_ip_version(rule.cidr) = v
                         THEN << <<rule.cidr>> >> ELSE <<>>
                    ELSE IF rule.grantee_group # "" /\ v = 4
                         THEN MemberAddresses(rule.grantee_group, 4)
                         ELSE <<>>
        IN  [j \in 1..Len(srcs) |-> <<p, srcs[j]>>]])

\* A list starts with the prelude and ends with the jump to sg-fallback.
Framed(list) ==
    /\ Len(list) >= 4
    /\ list[1] = Lit(<<"-m", "state", "--state", "INVALID", "-j", "DROP">>)
    /\ list[2] = Lit(<<"-m", "state", "--state", "ESTABLISHED,RELATED",
                       "-j", "ACCEPT">>)
    /\ list[3] = <<"-j", " ", "$", "provider">>
    /\ list[Len(list)] = <<"-j", " ", "$", "sg-fallback">>

\* C12: both lists instance_rules returns start with the INVALID drop, the
\* ESTABLISHED/RELATED accept and the jump to the provider chain, in that
\* order, and end with the jump to sg-fallback; the fragments of the security
\* group rules lie strictly between them, in the order the store returned
\* the groups and their rules, none merged and none moved.
C12_PreludeRulesFallback ==
    \A t \in Threads :
        ReturnedRules(t) =>
            \A v \in {4, 6} :
                LET list == cur[t].rules[IF v = 4 THEN 1 ELSE 2]
                IN  /\ Framed(list)
                    /\ ~GroupDerived(list[1]) /\ ~GroupDerived(list[2])
                    /\ ~GroupDerived(list[3]) /\ ~GroupDerived(list[Len(list)])
                    /\ KeysOf(list) = StoreKeys(cur[t].inst, v)

\* An instance of two groups has been compiled, one group holding the same
\* rule twice, the other rules of both IP versions and a grantee group.
C12_Witness ==
    \E t \in Threads :
        /\ ReturnedRules(t)
        /\ cur[t].inst = 3
        /\ sg_rules["g2"] = <<RuleTcp80, RuleTcp80>>
        /\ sg_rules["g1"] = <<RuleUdpV6, RuleTcp80, RuleIcmpFromG2>>
        /\ Len(KeysOf(cur[t].rules[1])) = 6
        /\ Len(KeysOf(cur[t].rules[2])) = 1

\* The entries of a list between its prelude and its fallback.
Inner(list) == SubSeq(list, 4, Len(list) - 1)

\* C13 (as claimed): with use_ipv6 false the IPv6 list instance_rules returns
\* has no DHCP, same-network, router-advertisement or group-derived entry,
\* whatever the rules: nothing but the prelude and the fallback.
C13_NoIpv6EntriesWhenDisabled ==
    \A t \in Threads :
        (ReturnedRules(t) /\ ~CONF.use_ipv6) =>
            /\ Framed(cur[t].rules[2])
            /\ Inner(cur[t].rules[2]) = <<>>

\* C13 (amended): with use_ipv6 false the IPv6 list instance_rules returns has
\* no DHCP, same-network or router-advertisement entry; between the prelude
\* and the fallback it holds the fragments of the rules whose CIDR is an IPv6
\* block, one each, and nothing else.
C13_OnlyIpv6CidrRulesWhenDisabled ==
    \A t \in Threads :
        (ReturnedRules(t) /\ ~CONF.use_ipv6) =>
            LET list == cur[t].rules[2]
            IN  /\ Framed(list)
                /\ \A k \in 1..Len(Inner(list)) :
                       /\ GroupDerived(Inner(list)[k])
                       /\ get_ip_version(OptionValue(Inner(list)[k], "-s")[1]) = 6
                /\ Len(Inner(list)) =
                       Len(SelectSeq(RulesOf(cur[t].inst),
                                     LAMBDA rule : /\ rule.cidr # ""
                                                   /\ get_ip_version(rule.cidr) = 6))

\* With use_ipv6 false and same-network traffic allowed, an instance whose
\* groups hold a rule with an IPv6 CIDR has been compiled.
C13_Witness ==
    \E t \in Threads :
        /\ ReturnedRules(t)
        /\ ~CONF.use_ipv6
        /\ CONF.allow_same_net_traffic
        /\ \E k \in 1..Len(RulesOf(cur[t].inst)) :
               RulesOf(cur[t].inst)[k].cidr = "fd00:c::/64"
        /\ Len(cur[t].rules[2]) > 4

\* The rule each group-derived fragment of the list of IP version v was
\* compiled from, fragment by fragment, for instance i.
FragmentRules(i, v) ==
    Flatten([k \in 1..Len(RulesOf(i)) |->
        LET rule == RulesOf(i)[k]
            n == IF rule.cidr # ""
                 THEN IF get_ip_version(rule.cidr) = v THEN 1 ELSE 0
                 ELSE IF rule.grantee_group # "" /\ v = 4
                      THEN Len(MemberAddresses(rule.grantee_group, 4))
                      ELSE 0
        IN  [j \in 1..n |-> rule]])

\* The ICMP type/code match of a fragment, <<>> when it has none.
IcmpMatch(frag) ==
    IF OptionValue(frag, "--icmp-type") # <<>>
    THEN OptionValue(frag, "--icmp-type")
    ELSE OptionValue(frag, "--icmpv6-type")

\* The fragment matches the ICMP type and code of the rule as claimed.
IcmpMatchAsClaimed(frag, rule) ==
    IcmpMatch(frag) =
        IF rule.from_port = -1 THEN <<>>
        ELSE IF rule.to_port = -1 THEN IntStr(rule.from_port)
        ELSE IntStr(rule.from_port) \o <<"/">> \o IntStr(rule.to_port)

\* C14: the fragment of every icmp rule with a CIDR, IPv4 or IPv6, compiled
\* by instance_rules or by _provider_rules, has no type/code match when the
\* type is -1, a type-only match when the type is >= 0 and the code is -1,
\* and a type/code match when both are >= 0.
C14_IcmpTypeCodeMatch ==
    \A t \in Threads : \A v \in {4, 6} :
        /\ ReturnedRules(t) =>
             LET frags == SelectSeq(cur[t].rules[IF v = 4 THEN 1 ELSE 2],
                                    GroupDerived)
                 rules == FragmentRules(cur[t].inst, v)
             IN  \A k \in 1..Len(frags) :
                     (lower(rules[k].protocol) = "icmp" /\ rules[k].cidr # "")
                     => IcmpMatchAsClaimed(frags[k], rules[k])
        /\ ReturnedProviderRules(t) =>
             LET frags == cur[t].rules[IF v = 4 THEN 1 ELSE 2]
                 rules == SelectSeq(provider_fw_rules,
                                    LAMBDA rule : get_ip_version(rule.cidr) = v)
             IN  \A k \in 1..Len(frags) :
                     rules[k].protocol = "icmp"
                     => IcmpMatchAsClaimed(frags[k], rules[k])

\* The sources of the group-derived fragments of a list, in list order.
SourcesOf(list) == [k \in 1..Len(KeysOf(list)) |-> KeysOf(list)[k][2]]

\* The sources the rules of instance i are claimed to have in the list of IP
\* version v: the CIDR of a rule with a CIDR of that version, and for a rule
\* with a grantee group every address of that version of every member, in
\* member order.
ClaimedSources(i, v) ==
    Flatten([k \in 1..Len(RulesOf(i)) |->
        LET rule == RulesOf(i)[k]
        IN  IF rule.cidr # ""
            THEN IF get_ip_version(rule.cidr) = v THEN << <<rule.cidr>> >> ELSE <<>>
            ELSE IF rule.grantee_group # ""
                 THEN MemberAddresses(rule.grantee_group, v)
                 ELSE <<>>])

\* C15: a rule with a grantee group and no CIDR is compiled into one ACCEPT
\* fragment per address of each member of the group, the IPv4 addresses in
\* the IPv4 list and the IPv6 addresses in the IPv6 list, in member order, and
\* into no other fragment.
C15_GroupRulePerMemberAddress ==
    \A t \in Threads : \A v \in {4, 6} :
        (ReturnedRules(t) /\ (v = 6 => CONF.use_ipv6)) =>
            SourcesOf(cur[t].rules[IF v = 4 THEN 1 ELSE 2])
                = ClaimedSources(cur[t].inst, v)

\* How often the word w occurs in the fragment.
CountWord(frag, w) ==
    Cardinality({k \in 1..Len(Words(frag)) : Words(frag)[k] = w})

\* The fragment matches the destination port(s) of the rule: the single port
\* with --dport and no range, or the range from_port:to_port once and no
\* single port.
PortMatch(frag, rule) ==
    IF rule.from_port = rule.to_port
    THEN /\ CountWord(frag, <<"--dport">>) = 1
         /\ OptionValue(frag, "--dport") = IntStr(rule.from_port)
         /\ CountWord(frag, <<"--dports">>) = 0
         /\ CountWord(frag, <<"multiport">>) = 0
    ELSE /\ CountWord(frag, <<"--dports">>) = 1
         /\ OptionValue(frag, "--dports") =
                IntStr(rule.from_port) \o <<":">> \o IntStr(rule.to_port)
         /\ OptionValue(frag, "-m") = <<"multiport">>
         /\ CountWord(frag, <<"--dport">>) = 0

\* C19: the fragment instance_rules and _provider_rules compile from a tcp or
\* udp rule has a single-port match equal to the port and no range match when
\* from_port equals to_port, and one range match from_port:to_port otherwise.
C19_SinglePortOrRange ==
    \A t \in Threads : \A v \in {4, 6} :
        /\ ReturnedRules(t) =>
             LET frags == SelectSeq(cur[t].rules[IF v = 4 THEN 1 ELSE 2],
                                    GroupDerived)
                 rules == FragmentRules(cur[t].inst, v)
             IN  /\ Len(frags) = Len(rules)
                 /\ \A k \in 1..Len(frags) :
                        lower(rules[k].protocol) \in {"tcp", "udp"}
                        => PortMatch(frags[k], rules[k])
        /\ ReturnedProviderRules(t) =>
             LET frags == cur[t].rules[IF v = 4 THEN 1 ELSE 2]
                 rules == SelectSeq(provider_fw_rules,
                                    LAMBDA rule : get_ip_version(rule.cidr) = v)
             IN  /\ Len(frags) = Len(rules)
                 /\ \A k \in 1..Len(frags) :
                        rules[k].protocol \in {"tcp", "udp"}
                        => PortMatch(frags[k], rules[k])

\* An instance whose group holds a udp rule with a port range and a tcp rule
\* with one port has been compiled, and its lists hold both kinds of match.
C19_Witness ==
    \E t \in Threads :
        /\ ReturnedRules(t)
        /\ cur[t].inst = 1
        /\ sg_rules["g1"] = <<RuleUdpV6, RuleTcp80, RuleIcmpFromG2>>
        /\ \E k \in 1..Len(cur[t].rules[1]) :
               HasOption(cur[t].rules[1][k], "--dport", <<"8", "0">>)
        /\ \E k \in 1..Len(cur[t].rules[2]) :
               HasOption(cur[t].rules[2][k], "--dports",
                         <<"5", "3", ":", "5", "4">>)

\* ------------------------------------------------------ the provider chain

\* The provider chain of the tables holds one fragment per provider rule of
\* the store, in store order (the rules of the tables' IP version), each
\* dropping what its rule matches and none accepting.
ProviderChainAsStore(tables) ==
    \A v \in {4, 6} :
        (v = 4 \/ CONF.use_ipv6) =>
            LET rules == SelectSeq(provider_fw_rules,
                                   LAMBDA rule : get_ip_version(rule.cidr) = v)
            IN  /\ <<"provider">> \in DOMAIN tables[v]
                /\ Len(tables[v][<<"provider">>]) = Len(rules)
                /\ \A k \in 1..Len(rules) :
                       LET w == Words(tables[v][<<"provider">>][k])
                       IN  /\ Len(w) >= 6
                           /\ w[Len(w) - 1] = <<"-j">>
                           /\ w[Len(w)] = <<"DROP">>
                           /\ CountWord(tables[v][<<"provider">>][k], <<"-j">>) = 1
                           /\ CountWord(tables[v][<<"provider">>][k], <<"ACCEPT">>) = 0
                           /\ OptionValue(tables[v][<<"provider">>][k], "-s")
                                  = <<rules[k].cidr>>
                           /\ rules[k].protocol \in {"tcp", "udp"} =>
                                  /\ OptionValue(tables[v][<<"provider">>][k], "-p")
                                         = <<rules[k].protocol>>
                                  /\ PortMatch(tables[v][<<"provider">>][k], rules[k])

\* C16: when refresh_provider_fw_rules returns, the provider chain holds
\* exactly one fragment per provider rule of the store, in store order, each
\* ending in DROP and none in ACCEPT, and no fragment of a rule that is no
\* longer in the store, whatever it held before: in the driver's tables, and
\* in the committed state unless the commit is deferred.
C16_ProviderChainRebuilt ==
    [][\A t \in Threads :
          (cur[t].op = "refresh_provider_fw_rules"
             /\ pc[t] = "apply" /\ pc'[t] = "idle")
          => /\ ProviderChainAsStore(iptables')
             /\ ~deferred => ProviderChainAsStore(committed')]_vars

\* A provider refresh is about to return: it has rebuilt the chain from the
\* three rules of the store, and the committed chain still holds the rule of
\* an earlier generation.
C16_Witness ==
    \E t \in Threads :
        /\ cur[t].op = "refresh_provider_fw_rules"
        /\ pc[t] = "apply"
        /\ lock = 0
        /\ ~deferred
        /\ Len(provider_fw_rules) = 3
        /\ <<"provider">> \in DOMAIN committed[4]
        /\ Len(committed[4][<<"provider">>]) = 1
        /\ Len(iptables[4][<<"provider">>]) = 2

\* ----------------------------------------------------------- deferred apply

\* C17: while the apply is deferred, no step of a prepare, an unfilter, a
\* refresh or a provider refresh changes the committed state, however many
\* operations run and however often they call apply(); the step that ends
\* the deferral commits the tables with everything accumulated in them.
C17_DeferredApply ==
    [][/\ (deferred /\ deferred') => committed' = committed
       /\ (deferred /\ ~deferred') => (committed' = iptables /\ iptables' = iptables)]_vars

\* The apply is deferred, and two instances have been prepared since: their
\* chains and the provider chain are in the driver's tables and not in the
\* committed state.
C17_Witness ==
    /\ deferred
    /\ Quiescent
    /\ DOMAIN instances = InstanceIds
    /\ \A i \in InstanceIds :
           /\ ChainOf(i) \in DOMAIN iptables[4]
           /\ ChainOf(i) \notin DOMAIN committed[4]
    /\ <<"provider">> \in DOMAIN iptables[4]
    /\ <<"provider">> \notin DOMAIN committed[4]

\* ------------------------------------------------------ instance_filter_exists

\* Thread t has returned from a call of instance_filter_exists of either
\* driver.
ReturnedExists(t) ==
    /\ pc[t] = "returned"
    /\ cur[t].op \in {"instance_filter_exists",
                      "NoopFirewallDriver.instance_filter_exists"}

\* C18: instance_filter_exists of either driver returns true for every
\* instance that has been prepared and not unfiltered since.
C18_FilterExistsWhenPrepared ==
    \A t \in Threads :
        (ReturnedExists(t) /\ cur[t].inst \in DOMAIN instances)
        => cur[t].ret = "True"

\* ---------------------------------------------------------- scope isolation

\* The scope of instance i in the driver's tables: its chain (whether it
\* exists, and its rules in order) and the rules of 'local' that jump to it.
EntityScope(i) ==
    [v \in {4, 6} |->
        [chain |-> IF ChainOf(i) \in DOMAIN iptables[v]
                   THEN <<iptables[v][ChainOf(i)]>> ELSE <<>>,
         jumps |-> SelectSeq(iptables[v][<<"local">>],
                             LAMBDA r : JumpsTo(r, ChainOf(i)))]]

\* The entries of instance i in self.instances and self.network_infos.
MapEntries(i) ==
    << IF i \in DOMAIN instances THEN <<instances[i]>> ELSE <<>>,
       IF i \in DOMAIN network_infos THEN <<network_infos[i]>> ELSE <<>> >>

\* Thread t takes a step of the operation op on instance a: its first step,
\* or a later one.
StepOf(t, op, a) ==
    /\ Acts(t)
    /\ \/ InFlight(t) /\ cur[t].op = op /\ cur[t].inst = a
       \/ ~InFlight(t) /\ cur'[t].op = op /\ cur'[t].inst = a

\* C20: no step of refresh_instance_security_rules(a) or unfilter_instance(a)
\* changes the chain of another tracked instance b, the jumps to it in
\* 'local', or b's entries in self.instances and self.network_infos; no step
\* of the refresh changes a's own entries in the two maps.
C20_ScopesIsolated ==
    [][\A t \in Threads, a \in InstanceIds :
          /\ (StepOf(t, "refresh_instance_security_rules", a)
                \/ StepOf(t, "unfilter_instance", a))
             => \A b \in (DOMAIN instances) \ {a} :
                    /\ EntityScope(b)' = EntityScope(b)
                    /\ MapEntries(b)' = MapEntries(b)
          /\ StepOf(t, "refresh_instance_security_rules", a)
             => MapEntries(a)' = MapEntries(a)]_vars

\* A refresh of instance 1 has removed its chain and is about to add it
\* again, while instance 2 is tracked and has its chain and its jump.
C20_Witness ==
    \E t \in Threads :
        /\ cur[t].op = "refresh_instance_security_rules"
        /\ cur[t].inst = 1
        /\ pc[t] = "r_add"
        /\ ChainOf(1) \notin DOMAIN iptables[4]
        /\ 2 \in DOMAIN instances
        /\ EntityScope(2)[4].chain # <<>>
        /\ Len(EntityScope(2)[4].jumps) = 1

\* ------------------------------------------------------ the jumps in 'local'

\* The addresses of IP version v in the network_info the driver keeps for
\* instance i.
TrackedAddresses(i, v) ==
    Flatten([k \in 1..Len(network_infos[i]) |->
        IF v = 4
        THEN [j \in 1..Len(network_infos[i][k][2].ips) |->
                 network_infos[i][k][2].ips[j].ip]
        ELSE [j \in 1..Len(network_infos[i][k][2].ip6s) |->
                 network_infos[i][k][2].ip6s[j].ip]])

\* The rule '-d <ip> -j $inst-<id>'.
JumpRule(ip, i) ==
    <<"-d", " ", ip, " ", "-j", " ", "$", "inst-">> \o NatStr(i)

\* The 'local' chain of the tables holds exactly one jump per address of
\* every tracked instance, and nothing else: no second jump for an address,
\* no jump for an instance that is not tracked.  The IPv6 table has the jumps
\* of the IPv6 addresses when use_ipv6 is true, and none otherwise.
LocalJumpsAsTracked(tables) ==
    \A v \in {4, 6} :
        LET local == tables[v][<<"local">>]
            jumps == {<<ip, i>> \in
                        UNION {{<<TrackedAddresses(i, v)[k], i>> :
                                    k \in 1..Len(TrackedAddresses(i, v))} :
                               i \in DOMAIN network_infos} :
                        v = 4 \/ CONF.use_ipv6}
        IN  /\ Len(local) = Cardinality(jumps)
            /\ \A j \in jumps :
                   Cardinality({k \in 1..Len(local) :
                                   local[k] = JumpRule(j[1], j[2])}) = 1

\* C21: between the operations of any sequence of prepare_instance_filter,
\* refreshes and unfilter_instance in which no lookup fails, the 'local'
\* chain holds exactly one jump rule '-d <ip> -j $inst-<id>' per address of
\* each tracked instance and no jump rule of an untracked instance: in the
\* driver's tables, and in the committed state when the commit is not
\* deferred.
C21_OneJumpPerAddress ==
    Quiescent =>
        /\ DOMAIN network_infos = DOMAIN instances
        /\ LocalJumpsAsTracked(iptables)
        /\ ~deferred => LocalJumpsAsTracked(committed)

\* Both instances are tracked and a refresh of instance 1 has removed and
\* added its chain again: 'local' holds the one jump of each instance in
\* both tables.
C21_Witness ==
    \E t \in Threads :
        /\ cur[t].op = "refresh_instance_security_rules"
        /\ cur[t].inst = 1
        /\ pc[t] = "apply"
        /\ CONF.use_ipv6
        /\ DOMAIN instances = InstanceIds
        /\ Len(iptables[4][<<"local">>]) = 2
        /\ Len(iptables[6][<<"local">>]) = 2
        /\ LocalJumpsAsTracked(iptables)

\* ------------------------------------------------- the IPv6 table, IPv6 off

\* The table holds what the construction of the driver left in it: the
\* manager's 'local' chain, empty, and sg-fallback with its DROP rule.
AsConstructed(table) ==
    /\ DOMAIN table = {<<"local">>, <<"sg-fallback">>}
    /\ table[<<"local">>] = <<>>
    /\ table[<<"sg-fallback">>] = << <<"-j", " ", "DROP">> >>

\* C22: when use_ipv6 is false no operation calls the IPv6 filter table
\* (add_chain, remove_chain, empty_chain, add_rule), and in every state the
\* IPv6 table, in the driver and as committed, holds only what the
\* construction of the driver left in it: sg-fallback with its DROP rule.
C22_Ipv6TableUntouched ==
    ~CONF.use_ipv6 =>
        /\ ~ipv6_calls
        /\ AsConstructed(iptables[6])
        /\ AsConstructed(committed[6])

\* With use_ipv6 false, both instances have been prepared and the provider
\* chain has been rebuilt from a store that holds a rule with an IPv6 CIDR:
\* the IPv4 table has the chains, the jumps and the provider rules.
C22_Witness ==
    /\ ~CONF.use_ipv6
    /\ Quiescent
    /\ DOMAIN instances = InstanceIds
    /\ Len(provider_fw_rules) = 3
    /\ Len(committed[4][<<"local">>]) = 2
    /\ <<"provider">> \in DOMAIN committed[4]
    /\ Len(committed[4][<<"provider">>]) = 2
    /\ \A i \in InstanceIds : ChainOf(i) \in DOMAIN committed[4]

====
